---- MODULE Spec2Model ----
(***************************************************************************)
(* ProcessingBook (src/A2/processing_book.py): a character-indexed trie    *)
(* that maps transactions (keyed by their signature) to values.            *)
(*                                                                         *)
(* A book is the record [level, pages, errors, length]; a page is          *)
(*   [kind |-> "none"]                        (Python None)                *)
(*   [kind |-> "tuple", key |-> k, value |-> v]  (the (transaction, value) *)
(*                                             tuple)                      *)
(*   [kind |-> "book", book |-> b]            (a nested ProcessingBook)    *)
(* Methods that mutate in place return [exc, book]: the exception raised   *)
(* ("none" when the call returns) and the object's state afterwards.       *)
(***************************************************************************)
EXTENDS Integers, Sequences, FiniteSets, Bags, TLC

\* ------------------------------------------------------------------ bounds

\* The iterators the caller holds at the same time.
NumIterators == 2

\* OrderDispatch(dispatch_location, max_orders): the capacity of the dispatch.
max_orders == 4

MaxRestaurants == 2

\* The variables of the caller that hold an iterator of the ProcessingLine.
NumLineIterators == 2

\* The environment makes at most this many iterators of the line in all.
MaxLineIterations == 3

\* The environment adds at most this many transactions to the line in all,
\* each transaction object once.
MaxAdded == 4

\* Longest signature the environment hands to the book.
MaxLen == 3
\* Transaction objects of one signature that the environment makes.
ObjectsPerSignature == 2
\* The environment stops inserting new keys once the book holds this many.
MaxEntries == 3
\* The environment stops provoking value conflicts once a node counted this many.
MaxErrors == 1

\* ------------------------------------------------------------- the inputs

\* ProcessingBook.LEGAL_CHARACTERS, cut to its first two symbols.
LEGAL_CHARACTERS == <<"a", "b">>

\* A symbol outside LEGAL_CHARACTERS that a signature may nevertheless hold.
IllegalChar == "?"

LegalChars == {LEGAL_CHARACTERS[i] : i \in 1..Len(LEGAL_CHARACTERS)}

RECURSIVE LegalSeqs(_)
LegalSeqs(n) ==
    IF n = 0 THEN {<< >>}
    ELSE {Append(s, c) : s \in LegalSeqs(n - 1), c \in LegalChars}

\* The signatures the environment uses: every legal signature of length
\* 0..MaxLen (the empty one included), and every legal signature shorter than
\* MaxLen followed by the illegal symbol.
Signatures ==
    UNION {LegalSeqs(n) : n \in 0..MaxLen}
    \cup UNION {{Append(s, IllegalChar) : s \in LegalSeqs(n)} : n \in 0..(MaxLen - 1)}

\* A transaction as the book sees it: its signature (compared by ==).
Transaction(sig) == [signature |-> sig]

Transactions == {Transaction(s) : s \in Signatures}

Values == {1, 2}

\* A transaction of processing_line.py, which has no __eq__: two objects are
\* equal only when they are the same object, whatever their signatures.
TransactionObject(sig, id) == [signature |-> sig, id |-> id]

\* The transaction objects the environment makes: ObjectsPerSignature of
\* every legal signature of length 0..MaxLen.
KeyObjects ==
    {TransactionObject(sig, id) :
        sig \in UNION {LegalSeqs(n) : n \in 0..MaxLen},
        id \in 1..ObjectsPerSignature}

Range(seq) == {seq[i] : i \in 1..Len(seq)}

\* ----------------------------------------------------------------- pages

NonePage == [kind |-> "none"]

TuplePage(k, v) == [kind |-> "tuple", key |-> k, value |-> v]

BookPage(b) == [kind |-> "book", book |-> b]

PageIndexes == 1..Len(LEGAL_CHARACTERS)

\* ProcessingBook.__init__
NewBook(level) ==
    [level |-> level,
     pages |-> [i \in PageIndexes |-> NonePage],
     errors |-> 0,
     length |-> 0]

\* ProcessingBook.__len__
BookLen(b) == b.length

\* Mutant: the count of a book includes the counts of its nested books.
RECURSIVE get_error_count_rolled_up(_)
RECURSIVE ErrorsFromPage(_, _)
ErrorsFromPage(b, i) ==
    IF i > Len(LEGAL_CHARACTERS) THEN 0
    ELSE (IF b.pages[i].kind = "book"
          THEN get_error_count_rolled_up(b.pages[i].book)
          ELSE 0) + ErrorsFromPage(b, i + 1)
get_error_count_rolled_up(b) == b.errors + ErrorsFromPage(b, 1)

\* ProcessingBook.get_error_count
get_error_count(b) == b.errors

\* str.index as page_index uses it: 0 stands for the ValueError it raises.
page_index(c) ==
    IF \E i \in PageIndexes : LEGAL_CHARACTERS[i] = c
    THEN CHOOSE i \in PageIndexes : LEGAL_CHARACTERS[i] = c
    ELSE 0

\* signature[self.level] (Python indexes from 0, sequences here from 1).
CharAt(sig, level) == sig[level + 1]

Raise(e, b) == [exc |-> e, book |-> b]

Return(b) == [exc |-> "none", book |-> b]

\* ------------------------------------------------------------ __setitem__

SetPage(b, i, p) == [b EXCEPT !.pages[i] = p]

\* "no transaction there, insert transaction into page"
SetEmptyPage(b, index, t, v) ==
    [SetPage(b, index, TuplePage(t, v)) EXCEPT !.length = @ + 1]

\* Mutant: the conflicting value replaces the stored one.
SetSameTransactionOverwrites(b, index, v) ==
    IF b.pages[index].value = v
    THEN b
    ELSE [SetPage(b, index, TuplePage(b.pages[index].key, v))
             EXCEPT !.errors = @ + 1]

\* Mutant: every set of a stored transaction is counted as an error.
SetSameTransactionAlwaysCounts(b, index, v) ==
    [b EXCEPT !.errors = @ + 1]

\* "transaction already in page": the same value changes nothing, another
\* value is counted as an error and the stored value is kept.
SetSameTransaction(b, index, v) ==
    IF b.pages[index].value = v
    THEN b
    ELSE [b EXCEPT !.errors = @ + 1]

\* Mutant: the nested book replaces the tuple and the new entry is not counted.
SetNewBookKeepsLength(b, index, new_book) ==
    SetPage(b, index, BookPage(new_book))

\* The page now holds the nested book built from the two colliding
\* transactions.
SetNewBook(b, index, new_book) ==
    [SetPage(b, index, BookPage(new_book)) EXCEPT !.length = @ + 1]

\* Mutant: the set is counted whether the nested book gained an entry or not.
SetNestedCountAlways(b, before, after) == [b EXCEPT !.length = @ + 1]

\* "already nested book": count the entry the nested book gained.
SetNestedCount(b, before, after) ==
    IF after > before
    THEN [b EXCEPT !.length = @ + 1]
    ELSE b

\* Mutant: without the length check, signature[self.level] raises IndexError.
KeyTooShortUnchecked(b) == Raise("IndexError", b)

\* Mutant: the set that is refused is counted as an error of the book.
KeyTooShortCounted(b) == Raise("ValueError", [b EXCEPT !.errors = @ + 1])

\* Mutant: the set of too short a signature returns and stores nothing.
KeyTooShortIgnored(b) == Return(b)

\* "if self.level >= len(signature): raise ValueError(...)"
KeyTooShort(b) == Raise("ValueError", b)

RECURSIVE setitem(_, _, _)
setitem(b, t, v) ==
    LET sig == t.signature IN
    IF b.level >= Len(sig) THEN KeyTooShort(b)
    ELSE
    LET index == page_index(CharAt(sig, b.level)) IN
    IF index = 0 THEN Raise("ValueError", b)
    ELSE
    LET page == b.pages[index] IN
    CASE page.kind = "none" -> Return(SetEmptyPage(b, index, t, v))
      [] page.kind = "tuple" ->
           IF page.key = t
           THEN Return(SetSameTransaction(b, index, v))
           ELSE LET r1 == setitem(NewBook(b.level + 1), page.key, page.value) IN
                IF r1.exc # "none" THEN Raise(r1.exc, b)
                ELSE
                LET r2 == setitem(r1.book, t, v) IN
                IF r2.exc # "none" THEN Raise(r2.exc, b)
                ELSE Return(SetNewBook(b, index, r2.book))
      [] page.kind = "book" ->
           LET before == BookLen(page.book)
               r == setitem(page.book, t, v)
               after == BookLen(r.book)
               \* the nested book is the same object, as the call left it
               kept == SetPage(b, index, BookPage(r.book))
           IN  IF r.exc # "none" THEN Raise(r.exc, kept)
               ELSE Return(SetNestedCount(kept, before, after))

\* The __setitem__ calls that book[t] = v makes, itself included: the level
\* of the book each call is made on and the transaction it is made with.
RECURSIVE SetCalls(_, _, _)
SetCalls(b, t, v) ==
    LET sig == t.signature IN
    {<<b.level, t>>} \cup
    IF b.level >= Len(sig) THEN {}
    ELSE
    LET index == page_index(CharAt(sig, b.level)) IN
    IF index = 0 THEN {}
    ELSE
    LET page == b.pages[index] IN
    CASE page.kind = "tuple" /\ page.key # t ->
           LET new_book == NewBook(b.level + 1)
               r1 == setitem(new_book, page.key, page.value)
           IN  SetCalls(new_book, page.key, page.value)
               \cup (IF r1.exc = "none" THEN SetCalls(r1.book, t, v) ELSE {})
      [] page.kind = "book" -> SetCalls(page.book, t, v)
      [] OTHER -> {}

\* ------------------------------------------------------------ __getitem__

\* Returns [exc, value]; value is meaningful when exc = "none".
RECURSIVE getitem(_, _)
getitem(b, t) ==
    LET sig == t.signature IN
    IF b.level >= Len(sig) THEN [exc |-> "IndexError", value |-> 0]
    ELSE
    LET index == page_index(CharAt(sig, b.level)) IN
    IF index = 0 THEN [exc |-> "ValueError", value |-> 0]
    ELSE
    LET page == b.pages[index] IN
    CASE page.kind = "none" -> [exc |-> "KeyError", value |-> 0]
      [] page.kind = "tuple" ->
           IF page.key = t
           THEN [exc |-> "none", value |-> page.value]
           ELSE [exc |-> "KeyError", value |-> 0]
      [] page.kind = "book" -> getitem(page.book, t)

\* ------------------------------------------------------ collapse_to_tuple

\* The first index whose page is not None, 0 when there is none (Python's
\* deeper_index stays None).
FirstUsed(b) ==
    IF \E i \in PageIndexes : b.pages[i].kind # "none"
    THEN CHOOSE i \in PageIndexes :
            /\ b.pages[i].kind # "none"
            /\ \A j \in PageIndexes : j < i => b.pages[j].kind = "none"
    ELSE 0

\* The last index whose page is not None, 0 when there is none (Python's
\* remaining_index stays None): the loop of __delitem__ has no break.
LastUsed(b) ==
    IF \E i \in PageIndexes : b.pages[i].kind # "none"
    THEN CHOOSE i \in PageIndexes :
            /\ b.pages[i].kind # "none"
            /\ \A j \in PageIndexes : j > i => b.pages[j].kind = "none"
    ELSE 0

\* collapse_to_tuple looking at the first page of the book whatever
\* remaining_index is.
RECURSIVE collapse_first_page(_, _)
collapse_first_page(b, remaining_index) ==
    IF remaining_index = 0 THEN [kind |-> "raise"]
    ELSE
    LET page == b.pages[1] IN
    CASE page.kind = "tuple" -> page
      [] page.kind = "book" ->
           collapse_first_page(page.book, FirstUsed(page.book))
      [] OTHER -> NonePage

\* Returns the page the caller stores: a tuple page, or NonePage where the
\* Python falls off the end and returns None.  remaining_index = 0 (None)
\* cannot index the array: [kind |-> "raise"].
RECURSIVE collapse_to_tuple(_, _)
collapse_to_tuple(b, remaining_index) ==
    IF remaining_index = 0 THEN [kind |-> "raise"]
    ELSE
    LET page == b.pages[remaining_index] IN
    CASE page.kind = "tuple" -> page
      [] page.kind = "book" -> collapse_to_tuple(page.book, FirstUsed(page.book))
      [] OTHER -> NonePage

\* ------------------------------------------------------------ __delitem__

\* Mutant: the tuple is removed and the length is left as it was.
DelTupleKeepsLength(b, index) ==
    SetPage(b, index, NonePage)

\* The matching tuple is removed.
DelTuple(b, index) ==
    [SetPage(b, index, NonePage) EXCEPT !.length = @ - 1]

\* Mutant: an entry the nested book lost is not counted.
DelNestedCountNever(b, before, after) == b

\* The nested book lost an entry: count it.
DelNestedCount(b, before, after) ==
    IF after < before
    THEN [b EXCEPT !.length = @ - 1]
    ELSE b

\* Mutant: a nested book left with one entry stays nested.
DelCollapseOnlyEmpty(b, index, child, after) ==
    IF after = 0 THEN Return(SetPage(b, index, NonePage))
    ELSE Return(b)

\* Mutant: a nested book left with one entry is collapsed into the first
\* page of its book, used or not.
DelCollapseFirstPage(b, index, child, after) ==
    IF after = 0 THEN Return(SetPage(b, index, NonePage))
    ELSE IF after = 1
         THEN LET c == collapse_to_tuple(child, 1) IN
              IF c.kind = "raise" THEN Raise("TypeError", b)
              ELSE Return(SetPage(b, index, c))
    ELSE Return(b)

\* What becomes of the page once the nested book `child` holds `after`
\* entries: None when "no items left in nested book", the collapsed tuple
\* when "exactly 1 item left", the nested book otherwise.  A raise of
\* collapse_to_tuple leaves the page as it was.
DelCollapse(b, index, child, after) ==
    IF after = 0 THEN Return(SetPage(b, index, NonePage))
    ELSE IF after = 1
         THEN LET c == collapse_to_tuple(child, LastUsed(child)) IN
              IF c.kind = "raise" THEN Raise("TypeError", b)
              ELSE Return(SetPage(b, index, c))
    ELSE Return(b)

RECURSIVE delitem(_, _)
delitem(b, t) ==
    LET sig == t.signature IN
    IF b.level >= Len(sig) THEN Raise("IndexError", b)
    ELSE
    LET index == page_index(CharAt(sig, b.level)) IN
    IF index = 0 THEN Raise("ValueError", b)
    ELSE
    LET page == b.pages[index] IN
    CASE page.kind = "none" -> Raise("KeyError", b)
      [] page.kind = "tuple" ->
           IF page.key = t
           THEN Return(DelTuple(b, index))
           ELSE Raise("KeyError", b)
      [] page.kind = "book" ->
           LET before == BookLen(page.book)
               r == delitem(page.book, t)
               after == BookLen(r.book)
               kept == SetPage(b, index, BookPage(r.book))
           IN  IF r.exc # "none" THEN Raise(r.exc, kept)
               ELSE DelCollapse(DelNestedCount(kept, before, after),
                                index, r.book, after)

\* The collapse_to_tuple calls that del book[t] makes from __delitem__, at
\* whatever depth: the nested book each call is made on, as the delete in it
\* left it, and the remaining_index it is made with.
RECURSIVE CollapseCalls(_, _)
CollapseCalls(b, t) ==
    LET sig == t.signature IN
    IF b.level >= Len(sig) THEN {}
    ELSE
    LET index == page_index(CharAt(sig, b.level)) IN
    IF index = 0 THEN {}
    ELSE
    LET page == b.pages[index] IN
    IF page.kind = "book"
    THEN LET r == delitem(page.book, t) IN
         CollapseCalls(page.book, t)
         \cup (IF r.exc = "none" /\ BookLen(r.book) = 1
               THEN {[child |-> r.book,
                      remaining_index |-> LastUsed(r.book)]}
               ELSE {})
    ELSE {}

\* ------------------------------------------------- _ProcessingBookIterator

\* return_in_order: the pairs in the order the recursion writes them.
RECURSIVE return_in_order(_)
RECURSIVE PagesFrom(_, _)
PagesFrom(b, i) ==
    IF i > Len(LEGAL_CHARACTERS) THEN << >>
    ELSE LET page == b.pages[i]
             here == CASE page.kind = "none" -> << >>
                       [] page.kind = "tuple" -> << <<page.key, page.value>> >>
                       [] page.kind = "book" -> return_in_order(page.book)
         IN  here \o PagesFrom(b, i + 1)

\* Mutant: the pages are walked from the last legal character to the first.
RECURSIVE PagesDownFrom(_, _)
PagesDownFrom(b, i) ==
    IF i < 1 THEN << >>
    ELSE LET page == b.pages[i]
             here == CASE page.kind = "none" -> << >>
                       [] page.kind = "tuple" -> << <<page.key, page.value>> >>
                       [] page.kind = "book" -> return_in_order(page.book)
         IN  here \o PagesDownFrom(b, i - 1)
return_in_order_backwards(b) == PagesDownFrom(b, Len(LEGAL_CHARACTERS))

return_in_order(b) == PagesFrom(b, 1)

\* _ProcessingBookIterator.__init__: items = ArrayR(len(book)) filled by
\* return_in_order; writing past the end of the array raises IndexError,
\* cells never written stay None.  ArrayR comes from the data_structures
\* package, which is not part of the repository: it is taken to be an array
\* of n None cells for every n >= 0, walked in index order.
NoneItem == <<"None">>

IteratorInit(b) ==
    LET got == return_in_order(b) IN
    IF Len(got) > BookLen(b)
    THEN [exc |-> "IndexError", items |-> << >>]
    ELSE [exc |-> "none",
          items |-> [i \in 1..BookLen(b) |->
                        IF i <= Len(got) THEN got[i] ELSE NoneItem]]

\* list(book): __iter__, then __next__ until StopIteration.
iterate(b) == IteratorInit(b)

\* Mutant: the iterator reads the book as it is when __next__ is called.
IterResultLive(it, b) ==
    IF it.current < Len(return_in_order(b))
    THEN return_in_order(b)[it.current + 1]
    ELSE NoneItem

\* _ProcessingBookIterator.__next__: "result = self.items[self.current]".
\* b is the book the iterator was made from, as it is now.
IterResult(it, b) == it.items[it.current + 1]

\* ------------------------------------------------------- Transaction.sign
\* (src/A2/processing_line.py)

\* The characters of a signature, in the order of their values 0..35; the
\* same table gives ord() of the digits and lower-case letters the
\* transactions are made of.
SignatureChars ==
    <<"0", "1", "2", "3", "4", "5", "6", "7", "8", "9",
      "a", "b", "c", "d", "e", "f", "g", "h", "i", "j", "k", "l", "m",
      "n", "o", "p", "q", "r", "s", "t", "u", "v", "w", "x", "y", "z">>

signature_length == 36

HashModulus == 1000000007

\* ord(c) for c in "0".."9" (48..57) and "a".."z" (97..122).
Ord(c) ==
    LET i == CHOOSE k \in 1..Len(SignatureChars) : SignatureChars[k] = c
    IN  IF i <= 10 THEN 47 + i ELSE 86 + i

\* str(n) for a natural number n.
RECURSIVE Str(_)
Str(n) ==
    IF n < 10 THEN <<SignatureChars[n + 1]>>
    ELSE Append(Str(n \div 10), SignatureChars[(n % 10) + 1])

\* (value * prime) % 1000000007 with prime = 31, for 0 <= value < 1000000007,
\* by doubling so that no intermediate result leaves 32 bits: 32v - v.
TimesPrime(value) ==
    LET v2  == (value + value) % HashModulus
        v4  == (v2 + v2) % HashModulus
        v8  == (v4 + v4) % HashModulus
        v16 == (v8 + v8) % HashModulus
        v32 == (v16 + v16) % HashModulus
    IN  (v32 + HashModulus - value) % HashModulus

\* "for i in range(len(input_str)): value = (value * prime + ord) % ...":
\* value after the first n characters.
RECURSIVE HashInput(_, _)
HashInput(input_str, n) ==
    IF n = 0 THEN 0
    ELSE LET value == HashInput(input_str, n - 1)
         IN  (TimesPrime(value) + Ord(input_str[n])) % HashModulus

\* "for i in range(signature_length)": the characters from index i on.
RECURSIVE SignatureFrom(_, _)
SignatureFrom(value, i) ==
    IF i >= signature_length THEN << >>
    ELSE LET next_value == (TimesPrime(value) + i) % HashModulus
             char_val == next_value % 36
         IN  <<SignatureChars[char_val + 1]>> \o SignatureFrom(next_value, i + 1)

\* Transaction.sign: the signature it stores in the transaction.
sign(tx) ==
    LET input_str == Str(tx.timestamp) \o tx.from_user \o tx.to_user
    IN  SignatureFrom(HashInput(input_str, Len(input_str)), 0)

\* --------------------------------------------------------- ProcessingLine
\* (src/A2/processing_line.py)

\* Transaction.__init__ leaves signature = None.
NoneSignature == <<"None">>

\* Transaction(timestamp, from_user, to_user), as the tests make them.
LineTransaction(timestamp, from_user, to_user) ==
    [timestamp |-> timestamp, from_user |-> from_user, to_user |-> to_user]

\* The transaction objects the environment adds to the line, by number:
\* two with a timestamp up to the critical one (one of them equal to it),
\* two with a later one.
LineTransactions ==
    <<LineTransaction(1, <<"a">>, <<"b">>),
      LineTransaction(2, <<"a">>, <<"b">>),
      LineTransaction(3, <<"a">>, <<"b">>),
      LineTransaction(4, <<"a">>, <<"b">>)>>

LineTxIds == 1..Len(LineTransactions)

\* The object number of the line's critical transaction.
CriticalId == 0

critical_transaction == LineTransaction(2, <<"c">>, <<"d">>)

TxFields(t) == IF t = CriticalId THEN critical_transaction ELSE LineTransactions[t]

\* The signatures the objects have when the line is made: transaction 3 was
\* given one by the caller, the others are unsigned.
InitialSignatures ==
    [t \in {CriticalId} \cup LineTxIds |->
        IF t = 3 THEN <<"a", "b", "c", "1", "2", "3">> ELSE NoneSignature]

\* ProcessingLine.__init__: before_queue is a LinkedQueue (served from the
\* head), after_stack a LinkedStack (its top is the last element here).
NewLine ==
    [before_queue |-> << >>, after_stack |-> << >>,
     locked |-> FALSE, iterator_created |-> FALSE]

\* Mutant: a timestamp equal to the critical one counts as later.
GoesBeforeStrictly(timestamp, critical_timestamp) ==
    timestamp < critical_timestamp

\* add_transaction: "transaction.timestamp <= critical_transaction.timestamp"
GoesBefore(timestamp, critical_timestamp) ==
    timestamp <= critical_timestamp

\* What sign() stores in each of the transaction objects.
SignatureBySign ==
    [t \in {CriticalId} \cup LineTxIds |-> sign(TxFields(t))]

\* Mutant: every transaction met is signed again.
SignedAlways(signature, t) == SignatureBySign[t]

\* __next__: "if current_transaction.signature is None: sign()"; the
\* signature transaction t has when it is returned.
Signed(signature, t) ==
    IF signature = NoneSignature THEN SignatureBySign[t] ELSE signature

\* _ProcessingLineIterator.__init__, and an iterator variable not bound yet.
\* yielded and stopped are history: the transactions __next__ returned, and
\* whether it has raised StopIteration.
NewLineIterator ==
    [created |-> TRUE, stage |-> 0, stopped |-> FALSE, yielded |-> << >>]

NoLineIterator ==
    [created |-> FALSE, stage |-> 0, stopped |-> FALSE, yielded |-> << >>]

\* _ProcessingLineIterator.__next__ on iterator it of line l, the
\* transactions having the signatures sg: what it raises, the transaction
\* it returns, and the line, the iterator and the signatures afterwards.
LineNextResult(l, it, sg) ==
    IF it.stage = 0 /\ Len(l.before_queue) > 0
    THEN LET t == Head(l.before_queue) IN
         [exc |-> "none", ret |-> t,
          line |-> [l EXCEPT !.before_queue = Tail(@)],
          it |-> [it EXCEPT !.yielded = Append(@, t)],
          sigs |-> [sg EXCEPT ![t] = Signed(@, t)]]
    ELSE IF it.stage \in {0, 1}
    THEN LET t == CriticalId IN
         [exc |-> "none", ret |-> t,
          line |-> l,
          it |-> [it EXCEPT !.stage = 2, !.yielded = Append(@, t)],
          sigs |-> [sg EXCEPT ![t] = Signed(@, t)]]
    ELSE IF Len(l.after_stack) > 0
    THEN LET t == l.after_stack[Len(l.after_stack)] IN
         [exc |-> "none", ret |-> t,
          line |-> [l EXCEPT !.after_stack = SubSeq(@, 1, Len(@) - 1)],
          it |-> [it EXCEPT !.yielded = Append(@, t)],
          sigs |-> [sg EXCEPT ![t] = Signed(@, t)]]
    ELSE [exc |-> "StopIteration", ret |-> CriticalId,
          line |-> [l EXCEPT !.locked = FALSE],
          it |-> [it EXCEPT !.stopped = TRUE],
          sigs |-> sg]

\* A finished call on the line: the operation, the iterator variable and the
\* transaction it was made with, what it raised and returned, and how things
\* were when it was made: the line, the signature of the transaction
\* returned, whether the iterator had raised StopIteration before, and
\* whether some iterator was made and had not raised StopIteration yet.
LineCall(op, i, t, e, ret, pre, presig, restop, busy) ==
    [op |-> op, it |-> i, tx |-> t, exc |-> e, ret |-> ret, pre |-> pre,
     presig |-> presig, restop |-> restop, busy |-> busy]

NoLineCall ==
    LineCall("none", 0, CriticalId, "none", CriticalId, NewLine,
             NoneSignature, FALSE, FALSE)

\* ----------------------------------------------------- Order, OrderDispatch
\* (src/A3/orders.py)

\* Order(hunger, location) once receive_order has set its distance.
Order(hunger, location, distance) ==
    [hunger |-> hunger, location |-> location, distance |-> distance]

dispatch_location == <<0, 0>>

\* The locations orders come from: the corners of a 3 by 4 rectangle, the
\* dispatch location among them, so that the distance between any two of
\* them is an integer and math.sqrt is exact.
Locations == {<<0, 0>>, <<3, 0>>, <<3, 4>>, <<0, 4>>}

\* The travel allowances deliver_multiple is called with.
MaxTravels == {0, 8, 10, 12, 24}

Hungers == {4, 8}

\* math.sqrt on the perfect squares the locations give.
Sqrt(n) == CHOOSE r \in 0..n : r * r = n

\* "math.sqrt(dx * dx + dy * dy)" between two locations.
DistanceBetween(from, to) ==
    LET dx == to[1] - from[1]
        dy == to[2] - from[2]
    IN  Sqrt(dx * dx + dy * dy)

\* receive_order: "order.distance = math.sqrt(dx * dx + dy * dy)"
Distance(location) ==
    LET dx == location[1] - dispatch_location[1]
        dy == location[2] - dispatch_location[2]
    IN  Sqrt(dx * dx + dy * dy)

\* Order.foodfast_score
foodfast_score(order) == order.distance * 4 - order.hunger * 5

\* Mutant: the comparison is not inverted.
OrderLtNotInverted(a, b) == foodfast_score(a) < foodfast_score(b)

\* Order.__lt__: inverted, the lower score is the higher priority.
OrderLt(a, b) == foodfast_score(a) > foodfast_score(b)

\* Order.__eq__
OrderEq(a, b) == foodfast_score(a) = foodfast_score(b)

\* functools.total_ordering: __gt__ and __le__ from __lt__ and __eq__.
OrderGt(a, b) == ~OrderLt(a, b) /\ ~OrderEq(a, b)

OrderLe(a, b) == OrderLt(a, b) \/ OrderEq(a, b)

\* data_structures.ArrayMaxHeap is not part of the repository: it is taken
\* to be the array-based binary max-heap, the root at index 1, whose add
\* lets the new item rise and whose extract_root moves the last item to the
\* root and lets it sink.  The heap is the sequence of its items.

\* ArrayMaxHeap._rise: item rises from index k.
RECURSIVE HeapRise(_, _, _)
HeapRise(array, k, item) ==
    IF k > 1 /\ OrderGt(item, array[k \div 2])
    THEN HeapRise([array EXCEPT ![k] = array[k \div 2]], k \div 2, item)
    ELSE [array EXCEPT ![k] = item]

\* ArrayMaxHeap.add
HeapAdd(array, item) == HeapRise(Append(array, item), Len(array) + 1, item)

\* ArrayMaxHeap._largest_child
HeapLargestChild(array, k) ==
    IF 2 * k = Len(array) \/ OrderGt(array[2 * k], array[2 * k + 1])
    THEN 2 * k
    ELSE 2 * k + 1

\* ArrayMaxHeap._sink: item sinks from index k.
RECURSIVE HeapSink(_, _, _)
HeapSink(array, k, item) ==
    IF 2 * k <= Len(array)
    THEN LET child == HeapLargestChild(array, k) IN
         IF OrderLe(array[child], item)
         THEN [array EXCEPT ![k] = item]
         ELSE HeapSink([array EXCEPT ![k] = array[child]], child, item)
    ELSE [array EXCEPT ![k] = item]

\* ArrayMaxHeap.extract_root: the root, and the heap without it.
HeapExtractRoot(array) ==
    LET rest == SubSeq(array, 1, Len(array) - 1)
        moved == array[Len(array)]
    IN  [root |-> array[1],
         array |-> IF rest = << >> THEN rest ELSE HeapSink(rest, 1, moved)]

\* Mutant: the dispatch never counts as full.
DispatchNeverFull(array) == FALSE

\* receive_order: "if self.orders.is_full()"
DispatchIsFull(array) == Len(array) = max_orders

\* Mutant: the way back to the dispatch location is not counted.
FitsOneWay(travel_used, distance_to_order, distance_back_home, max_travel) ==
    travel_used + distance_to_order <= max_travel

\* deliver_multiple: "if travel_used + distance_to_order +
\* distance_back_home <= max_travel"
Fits(travel_used, distance_to_order, distance_back_home, max_travel) ==
    travel_used + distance_to_order + distance_back_home <= max_travel

\* deliver_multiple, the while loop: the drone is at current, has flown
\* travel_used and has delivered the orders of delivered.  Returns the
\* orders delivered and the heap of those still pending.
RECURSIVE DeliverLoop(_, _, _, _, _)
DeliverLoop(array, current, travel_used, delivered, max_travel) ==
    IF Len(array) > 0
    THEN LET next_order == array[1]
             distance_to_order == DistanceBetween(current, next_order.location)
             distance_back_home ==
                 DistanceBetween(dispatch_location, next_order.location)
         IN  IF Fits(travel_used, distance_to_order, distance_back_home,
                     max_travel)
             THEN LET r == HeapExtractRoot(array) IN
                  DeliverLoop(r.array, r.root.location,
                              travel_used + distance_to_order,
                              Append(delivered, r.root), max_travel)
             ELSE [delivered |-> delivered, array |-> array]
    ELSE [delivered |-> delivered, array |-> array]

\* OrderDispatch.deliver_multiple
deliver_multiple(array, max_travel) ==
    DeliverLoop(array, dispatch_location, 0, << >>, max_travel)

\* A finished call on the dispatch: the operation, the order or the travel
\* allowance it was made with, the exception raised, the order or the list
\* of orders returned, and the pending orders when the call was made.
NoOrder == Order(0, dispatch_location, 0)

OrderCall(op, order, max_travel, e, ret, delivered, pre) ==
    [op |-> op, order |-> order, max_travel |-> max_travel, exc |-> e,
     ret |-> ret, delivered |-> delivered, pre |-> pre]

NoOrderCall == OrderCall("none", NoOrder, 0, "none", NoOrder, << >>, << >>)

\* ---------------------------------------------------- FoodFlight, the data

\* A3/restaurants.py.  A MenuItem has a name, here the sequence of its
\* characters, and a rating.
MenuItem(name, rating) == [name |-> name, rating |-> rating]

\* str.__lt__: the order of the first characters that differ, a proper
\* prefix before the longer string.
RECURSIVE StrLt(_, _)
StrLt(s, u) ==
    IF u = << >> THEN FALSE
    ELSE IF s = << >> THEN TRUE
    ELSE IF Head(s) # Head(u) THEN Ord(Head(s)) < Ord(Head(u))
    ELSE StrLt(Tail(s), Tail(u))

\* MenuItem.__eq__
MenuItemEq(self, other) ==
    self.rating = other.rating /\ self.name = other.name

\* MenuItem.__lt__ with the comparison of the ratings not reversed.
MenuItemLtNotReversed(self, other) ==
    IF self.rating # other.rating
    THEN self.rating < other.rating
    ELSE StrLt(self.name, other.name)

\* MenuItem.__lt__: the higher rating first, then the name.
MenuItemLt(self, other) ==
    IF self.rating # other.rating
    THEN self.rating > other.rating
    ELSE StrLt(self.name, other.name)

\* functools.total_ordering: __gt__ and __le__ from __lt__ and __eq__.
MenuItemGt(self, other) ==
    ~MenuItemLt(self, other) /\ ~MenuItemEq(self, other)

MenuItemLe(self, other) ==
    MenuItemLt(self, other) \/ MenuItemEq(self, other)

\* The nodes of a binary search tree (data_structures, not in src/).
NoneNode == [kind |-> "None"]

BinaryNode(item, key, left, right) ==
    [kind |-> "node", key |-> key, item |-> item,
     left |-> left, right |-> right]

\* BinarySearchTree(): no root, length 0.
NewTree == [root |-> NoneNode, length |-> 0]

\* The (key, item) pairs of a tree in order, as "for key, item in tree"
\* gives them.
RECURSIVE InOrder(_)
InOrder(node) ==
    IF node.kind = "None" THEN << >>
    ELSE InOrder(node.left) \o <<<<node.key, node.item>>>>
                            \o InOrder(node.right)

\* The items of a tree in order.
ItemsInOrder(tree) ==
    LET pairs == InOrder(tree.root)
    IN  [i \in 1..Len(pairs) |-> pairs[i][2]]

\* The keys of a tree.
TreeKeys(tree) == {p[1] : p \in Range(InOrder(tree.root))}

\* BinarySearchTree.__setitem__ on a tree of MenuItems: a new leaf where
\* the search for the key ends, the item replaced when the key is there.
RECURSIVE MenuInsertAux(_, _, _)
MenuInsertAux(current, key, item) ==
    IF current.kind = "None"
    THEN BinaryNode(item, key, NoneNode, NoneNode)
    ELSE IF MenuItemLt(key, current.key)
    THEN [current EXCEPT !.left = MenuInsertAux(@, key, item)]
    ELSE IF MenuItemGt(key, current.key)
    THEN [current EXCEPT !.right = MenuInsertAux(@, key, item)]
    ELSE [current EXCEPT !.item = item]

MenuSetItem(tree, key, item) ==
    [root |-> MenuInsertAux(tree.root, key, item),
     length |-> IF key \in TreeKeys(tree) THEN tree.length
                ELSE tree.length + 1]

\* BinarySearchTree.__setitem__ on a tree whose keys are block numbers.
RECURSIVE BlockInsertAux(_, _, _)
BlockInsertAux(current, key, item) ==
    IF current.kind = "None"
    THEN BinaryNode(item, key, NoneNode, NoneNode)
    ELSE IF key < current.key
    THEN [current EXCEPT !.left = BlockInsertAux(@, key, item)]
    ELSE IF key > current.key
    THEN [current EXCEPT !.right = BlockInsertAux(@, key, item)]
    ELSE [current EXCEPT !.item = item]

BlockSetItem(tree, key, item) ==
    [root |-> BlockInsertAux(tree.root, key, item),
     length |-> IF key \in TreeKeys(tree) THEN tree.length
                ELSE tree.length + 1]

\* BinarySearchTree.__getitem__ for a key of the tree.
TreeGetItem(tree, key) ==
    (CHOOSE p \in Range(InOrder(tree.root)) : p[1] = key)[2]

\* range_query_aux with a range that leaves out its two ends.
RECURSIVE range_query_aux_exclusive(_, _, _)
range_query_aux_exclusive(node, low, high) ==
    IF node.kind = "None" THEN << >>
    ELSE (IF node.key > low
          THEN range_query_aux_exclusive(node.left, low, high) ELSE << >>)
         \o (IF node.key > low /\ node.key < high
             THEN <<node.item>> ELSE << >>)
         \o (IF node.key < high
             THEN range_query_aux_exclusive(node.right, low, high)
             ELSE << >>)

\* BetterBinarySearchTree.range_query, range_query_aux: the items whose
\* keys are from low to high, in the order of the keys.
RECURSIVE range_query_aux(_, _, _)
range_query_aux(node, low, high) ==
    IF node.kind = "None" THEN << >>
    ELSE (IF node.key > low
          THEN range_query_aux(node.left, low, high) ELSE << >>)
         \o (IF node.key >= low /\ node.key <= high
             THEN <<node.item>> ELSE << >>)
         \o (IF node.key < high
             THEN range_query_aux(node.right, low, high) ELSE << >>)

range_query(tree, low, high) ==
    IF tree.root.kind = "None" THEN << >>
    ELSE range_query_aux(tree.root, low, high)

\* BetterBinarySearchTree.rebalance, build_balanced: low and high count
\* from 0 as in the source.
RECURSIVE build_balanced(_, _, _)
build_balanced(sorted_nodes, low, high) ==
    IF low > high THEN NoneNode
    ELSE LET mid == (low + high) \div 2
             key == sorted_nodes[mid + 1][1]
             item == sorted_nodes[mid + 1][2]
         IN  BinaryNode(item, key,
                        build_balanced(sorted_nodes, low, mid - 1),
                        build_balanced(sorted_nodes, mid + 1, high))

\* BetterBinarySearchTree.rebalance
rebalance(tree) ==
    LET length == tree.length
        sorted_nodes == InOrder(tree.root)
    IN  [tree EXCEPT !.root = build_balanced(sorted_nodes, 0, length - 1)]

\* "for item in array: menu[item] = item", onto the tree given.
RECURSIVE FillMenu(_, _)
FillMenu(tree, array) ==
    IF array = << >> THEN tree
    ELSE FillMenu(MenuSetItem(tree, Head(array), Head(array)), Tail(array))

\* Restaurant.__init__
Restaurant(name, block_number, initial_menu) ==
    [name |-> name, block_number |-> block_number,
     menu |-> FillMenu(NewTree, initial_menu)]

\* algorithms.mergesort (not in src/) with the items as their own keys: the
\* two halves sorted and merged, the left one first among equals.
RECURSIVE MergeHalves(_, _)
MergeHalves(l, r) ==
    IF l = << >> THEN r
    ELSE IF r = << >> THEN l
    ELSE IF MenuItemLe(Head(l), Head(r))
    THEN <<Head(l)>> \o MergeHalves(Tail(l), r)
    ELSE <<Head(r)>> \o MergeHalves(l, Tail(r))

RECURSIVE mergesort(_)
mergesort(array) ==
    IF Len(array) <= 1 THEN array
    ELSE LET mid == Len(array) \div 2
         IN  MergeHalves(mergesort(SubSeq(array, 1, mid)),
                         mergesort(SubSeq(array, mid + 1, Len(array))))

\* add_to_menu with the first while loop only: what is left of either array
\* when the other is used up is not copied.
RECURSIVE MergeMenusWithoutRest(_, _)
MergeMenusWithoutRest(existing_menu, sorted_new_menu) ==
    IF existing_menu # << >> /\ sorted_new_menu # << >>
    THEN IF MenuItemLt(Head(existing_menu), Head(sorted_new_menu))
         THEN <<Head(existing_menu)>>
              \o MergeMenusWithoutRest(Tail(existing_menu), sorted_new_menu)
         ELSE <<Head(sorted_new_menu)>>
              \o MergeMenusWithoutRest(existing_menu, Tail(sorted_new_menu))
    ELSE << >>

\* add_to_menu, the three while loops: the existing menu and the sorted new
\* items into one array, an existing item first only when it is strictly
\* less than the new one.
RECURSIVE MergeMenus(_, _)
MergeMenus(existing_menu, sorted_new_menu) ==
    IF existing_menu # << >> /\ sorted_new_menu # << >>
    THEN IF MenuItemLt(Head(existing_menu), Head(sorted_new_menu))
         THEN <<Head(existing_menu)>>
              \o MergeMenus(Tail(existing_menu), sorted_new_menu)
         ELSE <<Head(sorted_new_menu)>>
              \o MergeMenus(existing_menu, Tail(sorted_new_menu))
    ELSE existing_menu \o sorted_new_menu

\* LinearProbeTable (data_structures, not in src/): the object a name maps
\* to, NoRestaurant for a name that is not in the table.
NoRestaurant == 0

\* The result of a call on FoodFlight: the exception raised ("none" when
\* the call returned), what it returned, and the restaurants afterwards.
FoodResult(e, ret, restaurants) ==
    [exc |-> e, ret |-> ret, restaurants |-> restaurants]

\* FoodFlight.get_menu: restaurants are the Restaurant objects made so far,
\* table is self.restaurant_name.
get_menu(restaurants, table, restaurant_name) ==
    IF table[restaurant_name] = NoRestaurant
    THEN FoodResult("KeyError", << >>, restaurants)
    ELSE FoodResult("none",
                    ItemsInOrder(restaurants[table[restaurant_name]].menu),
                    restaurants)

\* FoodFlight.add_to_menu
add_to_menu(restaurants, table, restaurant_name, new_items) ==
    IF table[restaurant_name] = NoRestaurant
    THEN FoodResult("KeyError", << >>, restaurants)
    ELSE LET restaurant == table[restaurant_name]
             existing_menu ==
                 get_menu(restaurants, table, restaurant_name).ret
             sorted_new_menu == mergesort(new_items)
             updated_menu == MergeMenus(existing_menu, sorted_new_menu)
             menu == rebalance(FillMenu(NewTree, updated_menu))
         IN  FoodResult("none", << >>,
                        [restaurants EXCEPT ![restaurant].menu = menu])

\* meal_suggestions_gen, the for loop of one pass: the index of the menu
\* whose next item is the best of the pass, -1 when every menu is used up.
\* The pointers count from 0 as in the source.
RECURSIVE BestIndex(_, _, _, _)
BestIndex(menus, menu_pointers, i, best_index) ==
    IF i > Len(menus) THEN best_index
    ELSE LET item_index == menu_pointers[i] IN
         IF item_index < Len(menus[i])
         THEN LET current_item == menus[i][item_index + 1] IN
              IF \/ best_index = -1
                 \/ MenuItemLt(current_item,
                               menus[best_index]
                                    [menu_pointers[best_index] + 1])
              THEN BestIndex(menus, menu_pointers, i + 1, i)
              ELSE BestIndex(menus, menu_pointers, i + 1, best_index)
         ELSE BestIndex(menus, menu_pointers, i + 1, best_index)

\* meal_suggestions_gen: everything the generator yields until it returns.
RECURSIVE meal_suggestions_gen(_, _)
meal_suggestions_gen(menus, menu_pointers) ==
    LET best_index == BestIndex(menus, menu_pointers, 1, -1) IN
    IF best_index = -1 THEN << >>
    ELSE <<menus[best_index][menu_pointers[best_index] + 1]>>
         \o meal_suggestions_gen(
                menus, [menu_pointers EXCEPT ![best_index] = @ + 1])

\* FoodFlight.meal_suggestions, the iterator it returns run to its end:
\* tree is self.restaurant_block.
meal_suggestions(restaurants, tree, user_block_number, max_walk) ==
    LET low == user_block_number - max_walk
        high == user_block_number + max_walk
        nearby == range_query(tree, low, high)
        number_of_restaurants == Len(nearby)
        menus == [i \in 1..number_of_restaurants |->
                     ItemsInOrder(restaurants[nearby[i]].menu)]
    IN  IF number_of_restaurants = 0 THEN << >>
        ELSE meal_suggestions_gen(
                 menus, [i \in 1..number_of_restaurants |-> 0])

\* The menu items, the menus and the restaurants the environment uses: two
\* items of one name and different ratings, three items of one rating whose
\* names are a, ab and b, arrays that are not sorted and arrays that hold an
\* item twice; two restaurants of one block number and two of one name.
Espresso == MenuItem(<<"a">>, 2)

Latte == MenuItem(<<"a", "b">>, 2)

Mocha == MenuItem(<<"b">>, 2)

Decaf == MenuItem(<<"a">>, 1)

Ristretto == MenuItem(<<"b">>, 3)

InitialMenus ==
    {<< >>, <<Mocha, Ristretto, Espresso>>, <<Decaf, Latte, Decaf>>}

NewItemArrays ==
    {<< >>, <<Latte, Espresso, Ristretto>>, <<Decaf, Mocha>>}

RestaurantNames == {"Cafe", "Pizza", "Vegan"}

Places == {<<"Cafe", 5>>, <<"Pizza", 7>>, <<"Vegan", 5>>, <<"Cafe", 8>>}

UserBlocks == {5, 6}

MaxWalks == {0, 1, 2}

\* A finished call on FoodFlight: the operation, its arguments, the
\* exception raised, what was returned, and for add_to_menu the menu of
\* the restaurant when the call was made.
FoodCall(op, name, new_items, user_block_number, max_walk, e, ret, pre) ==
    [op |-> op, name |-> name, new_items |-> new_items,
     user_block_number |-> user_block_number, max_walk |-> max_walk,
     exc |-> e, ret |-> ret, pre |-> pre]

NoFoodCall == FoodCall("none", "", << >>, 0, 0, "none", << >>, << >>)

\* ------------------------------------------------------------ the machine

IterIds == 1..NumIterators

LineIterIds == 1..NumLineIterators

VARIABLES
    book,       \* the root ProcessingBook (level 0)
    last,       \* the call that has just returned or raised, Idle between calls
    inserted,   \* SpecInserts only: the transactions set so far, in order
    iters,      \* SpecIter only: the _ProcessingBookIterator objects
    line,       \* SpecLine: the ProcessingLine
    sigs,       \* SpecLine: the signature of every transaction object
    lits,       \* SpecLine: the _ProcessingLineIterator objects
    added,      \* SpecLine: the transactions added to the line so far, in order
    made,       \* SpecLine: the number of iterators of the line made so far
    lcall,      \* SpecLine: the call on the line that has just finished
    orders,     \* SpecOrders: OrderDispatch.orders, the heap of pending orders
    ocall,      \* SpecOrders: the call on the dispatch that has just finished
    restaurants,      \* SpecFood: the Restaurant objects made so far
    restaurant_block, \* SpecFood: FoodFlight.restaurant_block, block to object
    restaurant_name,  \* SpecFood: FoodFlight.restaurant_name, name to object
    supplied,         \* SpecFood: the items each Restaurant has been given
    fcall             \* SpecFood: the call on FoodFlight that has just finished

bookVars == <<book, last, inserted>>

iterVars == <<iters>>

lineVars == <<line, sigs, lits, added, made, lcall>>

orderVars == <<orders, ocall>>

foodVars ==
    <<restaurants, restaurant_block, restaurant_name, supplied, fcall>>

vars == <<bookVars, iterVars, lineVars, orderVars, foodVars>>

\* What the calls on the book alone leave as it is.
besideBook == <<iterVars, lineVars, orderVars, foodVars>>

\* What the calls on the book and its iterators leave as it is.
besideIter == <<lineVars, orderVars, foodVars>>

\* What the calls on the line leave as it is.
besideLine == <<bookVars, iterVars, orderVars, foodVars>>

\* What the calls on the dispatch leave as it is.
besideOrders == <<bookVars, iterVars, lineVars, foodVars>>

\* What the calls on FoodFlight leave as it is.
besideFood == <<bookVars, iterVars, lineVars, orderVars>>

NoKey == Transaction(<< >>)

\* A finished call: the operation, its arguments, the exception it raised
\* ("none" when it returned), the value it returned, and the book as it was
\* when the call was made.
Call(op, k, v, e, ret, pre) ==
    [op |-> op, key |-> k, value |-> v, exc |-> e, ret |-> ret, pre |-> pre]

Idle == Call("idle", NoKey, 0, "none", << >>, NewBook(0))

\* An iterator variable that is not bound to an iterator yet.
NoIterator ==
    [created |-> FALSE, items |-> << >>, current |-> 0,
     stopped |-> FALSE, listing |-> << >>, yielded |-> << >>]

Init ==
    /\ book = NewBook(0)
    /\ last = Idle
    /\ inserted = << >>
    /\ iters = [i \in IterIds |-> NoIterator]
    /\ line = NewLine
    /\ sigs = InitialSignatures
    /\ lits = [i \in LineIterIds |-> NoLineIterator]
    /\ added = << >>
    /\ made = 0
    /\ lcall = NoLineCall
    /\ orders = << >>
    /\ ocall = NoOrderCall
    /\ restaurants = << >>
    /\ restaurant_block = NewTree
    /\ restaurant_name = [n \in RestaurantNames |-> NoRestaurant]
    /\ supplied = << >>
    /\ fcall = NoFoodCall

\* Every book of the structure, the root included.
RECURSIVE Books(_)
Books(b) ==
    {b} \cup UNION {Books(b.pages[i].book) :
                      i \in {j \in PageIndexes : b.pages[j].kind = "book"}}

\* The environment's bounds on what it asks of the book.
WithinBounds(b) ==
    /\ BookLen(b) <= MaxEntries
    /\ \A n \in Books(b) : n.errors <= MaxErrors

\* book[t] = v
SetItem ==
    /\ last = Idle
    /\ \E t \in Transactions, v \in Values :
        LET r == setitem(book, t, v) IN
        /\ WithinBounds(r.book)
        /\ book' = r.book
        /\ last' = Call("set", t, v, r.exc, << >>, book)
    /\ UNCHANGED inserted
    /\ UNCHANGED besideBook

\* book[t]
GetItem ==
    /\ last = Idle
    /\ \E t \in Transactions :
        LET r == getitem(book, t) IN
        /\ book' = book
        /\ last' = Call("get", t, 0, r.exc, <<r.value>>, book)
    /\ UNCHANGED inserted
    /\ UNCHANGED besideBook

\* del book[t]
DelItem ==
    /\ last = Idle
    /\ \E t \in Transactions :
        LET r == delitem(book, t) IN
        /\ book' = r.book
        /\ last' = Call("del", t, 0, r.exc, << >>, book)
    /\ UNCHANGED inserted
    /\ UNCHANGED besideBook

\* list(book)
Iterate ==
    /\ last = Idle
    /\ LET r == iterate(book) IN
        /\ book' = book
        /\ last' = Call("iter", NoKey, 0, r.exc, r.items, book)
    /\ UNCHANGED inserted
    /\ UNCHANGED besideBook

\* The caller has seen the outcome and goes on to its next call.
Proceed ==
    /\ last # Idle
    /\ book' = book
    /\ last' = Idle
    /\ UNCHANGED inserted
    /\ UNCHANGED besideBook

Next == SetItem \/ GetItem \/ DelItem \/ Iterate \/ Proceed

Spec == Init /\ [][Next]_vars

\* ---------------------------------------------------- inserts only

\* A transaction whose signature is not empty and holds legal symbols only.
WellFormed(t) ==
    /\ Len(t.signature) > 0
    /\ \A i \in 1..Len(t.signature) : page_index(t.signature[i]) # 0

\* book[t] = v for a transaction that was not set before.
InsertDistinct ==
    /\ last = Idle
    /\ Len(inserted) < MaxEntries
    /\ \E t \in Transactions \ Range(inserted), v \in Values :
        LET r == setitem(book, t, v) IN
        /\ book' = r.book
        /\ last' = Call("set", t, v, r.exc, << >>, book)
        /\ inserted' = Append(inserted, t)
    /\ UNCHANGED besideBook

NextInserts == InsertDistinct \/ Iterate \/ Proceed

\* An empty book into which distinct transactions are set, in any order, and
\* which is listed at any time.
SpecInserts == Init /\ [][NextInserts]_vars

\* book[t] = 1 for a transaction object t.
SetObject ==
    /\ last = Idle
    /\ \E t \in KeyObjects :
        LET r == setitem(book, t, 1) IN
        /\ WithinBounds(r.book)
        /\ book' = r.book
        /\ last' = Call("set", t, 1, r.exc, << >>, book)
    /\ UNCHANGED inserted
    /\ UNCHANGED besideBook

\* del book[t] for a transaction object t.
DelObject ==
    /\ last = Idle
    /\ \E t \in KeyObjects :
        LET r == delitem(book, t) IN
        /\ book' = r.book
        /\ last' = Call("del", t, 0, r.exc, << >>, book)
    /\ UNCHANGED inserted
    /\ UNCHANGED besideBook

NextObjects == SetObject \/ DelObject \/ Proceed

\* A book whose keys are transaction objects compared by identity, several
\* of them with one signature.
SpecObjects == Init /\ [][NextObjects]_vars

\* ---------------------------------------------- iterators held by a caller

\* The transactions set and deleted while iterators are held: one that stays
\* in a root page and two that collide in the page of "b".
IterKeys ==
    {Transaction(<<"a">>), Transaction(<<"b", "a">>), Transaction(<<"b", "b">>)}

\* it = iter(book): _ProcessingBookIterator.__init__ fills items from the
\* book and starts at 0.  listing and yielded are history: the tuples of
\* the book in page order when the iterator was made, and what __next__ has
\* returned so far.
IterNew(i) ==
    LET r == IteratorInit(book) IN
    /\ last = Idle
    /\ r.exc = "none"
    /\ iters' = [iters EXCEPT ![i] =
                    [created |-> TRUE, items |-> r.items, current |-> 0,
                     stopped |-> FALSE, listing |-> return_in_order(book),
                     yielded |-> << >>]]
    /\ UNCHANGED <<bookVars, besideIter>>

\* next(it): StopIteration once current has reached len(items), otherwise
\* the item at current, and current moves on by one.
IterNext(i) ==
    LET it == iters[i] IN
    /\ last = Idle
    /\ it.created
    /\ IF it.current >= Len(it.items)
       THEN iters' = [iters EXCEPT ![i].stopped = TRUE]
       ELSE iters' = [iters EXCEPT ![i].current = @ + 1,
                                   ![i].yielded = Append(@, IterResult(it, book))]
    /\ UNCHANGED <<bookVars, besideIter>>

\* book[t] = v while iterators are held.
IterSetItem ==
    /\ last = Idle
    /\ \E t \in IterKeys, v \in Values :
        LET r == setitem(book, t, v) IN
        /\ WithinBounds(r.book)
        /\ book' = r.book
    /\ UNCHANGED <<last, inserted, iters, besideIter>>

\* del book[t] while iterators are held.
IterDelItem ==
    /\ last = Idle
    /\ \E t \in IterKeys :
        LET r == delitem(book, t) IN
        /\ book' = r.book
    /\ UNCHANGED <<last, inserted, iters, besideIter>>

NextIter ==
    \/ \E i \in IterIds : IterNew(i)
    \/ \E i \in IterIds : IterNext(i)
    \/ IterSetItem
    \/ IterDelItem

\* A book that is set into and deleted from while the caller makes and
\* advances iterators over it.
SpecIter == Init /\ [][NextIter]_vars

\* ------------------------------------------------------ the line at work

\* Some iterator of the line was made and has not raised StopIteration.
IterationInProgress ==
    \E i \in LineIterIds : lits[i].created /\ ~lits[i].stopped

\* line.add_transaction(t)
AddTransaction ==
    /\ \E t \in LineTxIds :
        IF line.locked
        THEN /\ lcall' = LineCall("add", 0, t, "RuntimeError", CriticalId, line,
                                  NoneSignature, FALSE, IterationInProgress)
             /\ UNCHANGED <<line, added>>
        ELSE /\ Len(added) < MaxAdded
             /\ t \notin Range(added)
             /\ line' = IF GoesBefore(TxFields(t).timestamp,
                                      critical_transaction.timestamp)
                        THEN [line EXCEPT !.before_queue = Append(@, t)]
                        ELSE [line EXCEPT !.after_stack = Append(@, t)]
             /\ added' = Append(added, t)
             /\ lcall' = LineCall("add", 0, t, "none", CriticalId, line,
                                  NoneSignature, FALSE, IterationInProgress)
    /\ UNCHANGED <<sigs, lits, made, besideLine>>

\* it = iter(line), it being the caller's variable i
LineIter(i) ==
    /\ IF line.locked
       THEN /\ lcall' = LineCall("iter", i, CriticalId, "RuntimeError", CriticalId,
                                 line, NoneSignature, FALSE, IterationInProgress)
            /\ UNCHANGED <<line, lits, made>>
       ELSE /\ made < MaxLineIterations
            /\ line' = [line EXCEPT !.locked = TRUE, !.iterator_created = TRUE]
            /\ lits' = [lits EXCEPT ![i] = NewLineIterator]
            /\ made' = made + 1
            /\ lcall' = LineCall("iter", i, CriticalId, "none", CriticalId,
                                 line, NoneSignature, FALSE, IterationInProgress)
    /\ UNCHANGED <<sigs, added, besideLine>>

\* next(it), it being the caller's variable i
LineNext(i) ==
    /\ lits[i].created
    /\ LET r == LineNextResult(line, lits[i], sigs) IN
        /\ line' = r.line
        /\ lits' = [lits EXCEPT ![i] = r.it]
        /\ sigs' = r.sigs
        /\ lcall' = LineCall("next", i, CriticalId, r.exc, r.ret, line,
                             sigs[r.ret], lits[i].stopped, IterationInProgress)
    /\ UNCHANGED <<added, made, besideLine>>

NextLine ==
    \/ AddTransaction
    \/ \E i \in LineIterIds : LineIter(i)
    \/ \E i \in LineIterIds : LineNext(i)

\* A ProcessingLine to which the caller adds transactions and of which it
\* makes and advances iterators, in any order.
SpecLine == Init /\ [][NextLine]_vars

\* -------------------------------------------------- the dispatch at work

\* dispatch.receive_order(Order(hunger, location))
ReceiveOrder ==
    /\ \E hunger \in Hungers, location \in Locations :
        IF DispatchIsFull(orders)
        THEN /\ ocall' = OrderCall("receive", Order(hunger, location, 0), 0,
                                   "Exception", NoOrder, << >>, orders)
             /\ UNCHANGED orders
        ELSE LET order == Order(hunger, location, Distance(location)) IN
             /\ orders' = HeapAdd(orders, order)
             /\ ocall' = OrderCall("receive", order, 0, "none", NoOrder, << >>,
                                   orders)
    /\ UNCHANGED besideOrders

\* dispatch.deliver_single()
DeliverSingle ==
    /\ IF Len(orders) = 0
       THEN /\ ocall' = OrderCall("deliver_single", NoOrder, 0, "Exception",
                                  NoOrder, << >>, orders)
            /\ UNCHANGED orders
       ELSE LET r == HeapExtractRoot(orders) IN
            /\ orders' = r.array
            /\ ocall' = OrderCall("deliver_single", NoOrder, 0, "none", r.root,
                                  << >>, orders)
    /\ UNCHANGED besideOrders

\* dispatch.deliver_multiple(max_travel)
DeliverMultiple ==
    /\ \E max_travel \in MaxTravels :
        LET r == deliver_multiple(orders, max_travel) IN
        /\ orders' = r.array
        /\ ocall' = OrderCall("deliver_multiple", NoOrder, max_travel, "none",
                              NoOrder, r.delivered, orders)
    /\ UNCHANGED besideOrders

NextOrders == ReceiveOrder \/ DeliverSingle \/ DeliverMultiple

\* An OrderDispatch that receives and delivers orders, in any order.
SpecOrders == Init /\ [][NextOrders]_vars

\* ---------------------------------------------------- FoodFlight, calls

\* FoodFlight.add_restaurant(Restaurant(name, block_number, initial_menu)),
\* the restaurant a new object.
AddRestaurant ==
    /\ Len(restaurants) < MaxRestaurants
    /\ \E place \in Places, initial_menu \in InitialMenus :
          LET restaurant == Restaurant(place[1], place[2], initial_menu)
              object == Len(restaurants) + 1
          IN  /\ restaurants' = Append(restaurants, restaurant)
              /\ restaurant_block' =
                     BlockSetItem(restaurant_block,
                                  restaurant.block_number, object)
              /\ restaurant_name' =
                     [restaurant_name EXCEPT ![restaurant.name] = object]
              /\ supplied' = Append(supplied, Range(initial_menu))
              /\ fcall' = FoodCall("add_restaurant", restaurant.name, << >>,
                                   restaurant.block_number, 0, "none", << >>,
                                   << >>)
    /\ UNCHANGED besideFood

\* FoodFlight.get_menu(name)
GetMenu ==
    /\ \E name \in RestaurantNames :
          LET r == get_menu(restaurants, restaurant_name, name)
          IN  fcall' = FoodCall("get_menu", name, << >>, 0, 0, r.exc, r.ret,
                                << >>)
    /\ UNCHANGED <<restaurants, restaurant_block, restaurant_name, supplied>>
    /\ UNCHANGED besideFood

\* FoodFlight.add_to_menu(name, new_items)
AddToMenu ==
    /\ \E name \in RestaurantNames, new_items \in NewItemArrays :
          LET r == add_to_menu(restaurants, restaurant_name, name, new_items)
          IN  /\ restaurants' = r.restaurants
              /\ supplied' =
                     IF r.exc = "none"
                     THEN [supplied EXCEPT ![restaurant_name[name]] =
                                               @ \cup Range(new_items)]
                     ELSE supplied
              /\ fcall' = FoodCall("add_to_menu", name, new_items, 0, 0,
                                   r.exc, << >>,
                                   get_menu(restaurants, restaurant_name,
                                            name).ret)
    /\ UNCHANGED <<restaurant_block, restaurant_name>>
    /\ UNCHANGED besideFood

\* list(FoodFlight.meal_suggestions(user_block_number, max_walk))
MealSuggestions ==
    /\ \E user_block_number \in UserBlocks, max_walk \in MaxWalks :
          fcall' = FoodCall("meal_suggestions", "", << >>,
                            user_block_number, max_walk, "none",
                            meal_suggestions(restaurants, restaurant_block,
                                             user_block_number, max_walk),
                            << >>)
    /\ UNCHANGED <<restaurants, restaurant_block, restaurant_name, supplied>>
    /\ UNCHANGED besideFood

NextFood == AddRestaurant \/ GetMenu \/ AddToMenu \/ MealSuggestions

SpecFood == Init /\ [][NextFood]_vars

\* ------------------------------------------------------- what is stored

\* The (transaction, value) tuples reachable from book b.
RECURSIVE Leaves(_)
Leaves(b) ==
    UNION {CASE b.pages[i].kind = "tuple" ->
                  {<<b.pages[i].key, b.pages[i].value>>}
             [] b.pages[i].kind = "book" -> Leaves(b.pages[i].book)
             [] OTHER -> {} : i \in PageIndexes}

\* The number of tuple pages reachable from book b.
RECURSIVE LeafCount(_)
RECURSIVE LeafCountFrom(_, _)
LeafCountFrom(b, i) ==
    IF i > Len(LEGAL_CHARACTERS) THEN 0
    ELSE (CASE b.pages[i].kind = "tuple" -> 1
            [] b.pages[i].kind = "book" -> LeafCount(b.pages[i].book)
            [] OTHER -> 0) + LeafCountFrom(b, i + 1)
LeafCount(b) == LeafCountFrom(b, 1)

StoredKeys(b) == {p[1] : p \in Leaves(b)}

\* The stored tuples as a map from transaction to value.
AbsMap(b) == [t \in StoredKeys(b) |-> CHOOSE v \in Values : <<t, v>> \in Leaves(b)]

\* The books of the structure by position: the page indexes that lead from
\* the root to the book, << >> for the root.
RECURSIVE Paths(_)
Paths(b) ==
    {<< >>} \cup UNION {{<<i>> \o q : q \in Paths(b.pages[i].book)} :
                         i \in {j \in PageIndexes : b.pages[j].kind = "book"}}

RECURSIVE NodeAt(_, _)
NodeAt(b, path) ==
    IF path = << >> THEN b
    ELSE NodeAt(b.pages[Head(path)].book, Tail(path))

HoldsTuple(n, t) ==
    \E i \in PageIndexes : n.pages[i].kind = "tuple" /\ n.pages[i].key = t

\* The position of the book one of whose pages is t's tuple.
HolderPath(b, t) == CHOOSE q \in Paths(b) : HoldsTuple(NodeAt(b, q), t)

Front(path) == SubSeq(path, 1, Len(path) - 1)

\* Signature s comes before signature u: at the first symbol where they
\* differ, s has the symbol that is earlier in LEGAL_CHARACTERS.
SigBefore(s, u) ==
    \E i \in 1..Len(s) :
        /\ i <= Len(u)
        /\ \A j \in 1..(i - 1) : s[j] = u[j]
        /\ page_index(s[i]) # 0
        /\ page_index(u[i]) # 0
        /\ page_index(s[i]) < page_index(u[i])

\* The pairs book[t] returns, over every transaction of the environment.
GetPairs(b) ==
    {<<t, getitem(b, t).value>> : t \in {u \in Transactions : getitem(b, u).exc = "none"}}

\* ------------------------------------------------------------- the claims

\* The first-write-wins map: a set that returns stores the value unless the
\* key is present, a delete that returns removes the key, a call that raises
\* changes nothing.
FirstWriteSet(m, t, v) ==
    IF t \in DOMAIN m THEN m
    ELSE [u \in DOMAIN m \cup {t} |-> IF u = t THEN v ELSE m[u]]

FirstWriteDel(m, t) == [u \in DOMAIN m \ {t} |-> m[u]]

\* C1: the book refines the first-write-wins map.  Every set and delete takes
\* the map of the stored tuples to the map the abstract operation gives, and
\* book[t] returns v exactly when the map has t -> v and raises KeyError
\* exactly when t is absent (stated for well-formed transactions: a
\* non-empty signature of legal symbols).
C1_RefinesFirstWriteWinsMap ==
    /\ last.op = "set" =>
          AbsMap(book) = IF last.exc = "none"
                         THEN FirstWriteSet(AbsMap(last.pre), last.key, last.value)
                         ELSE AbsMap(last.pre)
    /\ last.op = "del" =>
          AbsMap(book) = IF last.exc = "none"
                         THEN FirstWriteDel(AbsMap(last.pre), last.key)
                         ELSE AbsMap(last.pre)
    /\ (last.op = "get" /\ WellFormed(last.key)) =>
          IF last.key \in DOMAIN AbsMap(last.pre)
          THEN last.exc = "none" /\ last.ret = <<AbsMap(last.pre)[last.key]>>
          ELSE last.exc = "KeyError"

\* Signature s is a prefix of signature u, or equal to it.
IsPrefix(s, u) == Len(s) <= Len(u) /\ SubSeq(u, 1, Len(s)) = s

\* No signature of the sequence is a prefix of, or equal to, another's.
PrefixFree(seq) ==
    \A i, j \in 1..Len(seq) :
        i # j => ~IsPrefix(seq[i].signature, seq[j].signature)

AllWellFormed(seq) == \A i \in 1..Len(seq) : WellFormed(seq[i])

\* len(book) is the number of transactions set, and so is the number of
\* pairs a listing yields.
AllInsertedCounted ==
    /\ BookLen(book) = Len(inserted)
    /\ last.op = "iter" =>
          last.exc = "none" /\ Len(last.ret) = Len(inserted)

C3_ReinsertIsNoOp ==
    (last.op = "set" /\ <<last.key, last.value>> \in Leaves(last.pre)) =>
        /\ last.exc = "none"
        /\ book = last.pre
        /\ getitem(book, last.key) = getitem(last.pre, last.key)

C3_Witness ==
    /\ last.op = "set"
    /\ <<last.key, last.value>> \in Leaves(last.pre)
    /\ Len(HolderPath(last.pre, last.key)) = 2

\* C4: setting (t, v2) when t is stored with another value v1 raises nothing,
\* leaves book[t] = v1 and the length of every book of the structure, and
\* adds exactly 1 to the error count of the book that holds t's tuple and
\* nothing to any other book's.
C4_ConflictCountedAtHolder ==
    (/\ last.op = "set"
     /\ last.key \in StoredKeys(last.pre)
     /\ AbsMap(last.pre)[last.key] # last.value) =>
        LET holder == HolderPath(last.pre, last.key) IN
        /\ last.exc = "none"
        /\ getitem(book, last.key) =
              [exc |-> "none", value |-> AbsMap(last.pre)[last.key]]
        /\ Paths(book) = Paths(last.pre)
        /\ \A q \in Paths(last.pre) :
              /\ BookLen(NodeAt(book, q)) = BookLen(NodeAt(last.pre, q))
              /\ get_error_count(NodeAt(book, q)) =
                    get_error_count(NodeAt(last.pre, q))
                    + (IF q = holder THEN 1 ELSE 0)

C4_Witness ==
    /\ last.op = "set"
    /\ last.key \in StoredKeys(last.pre)
    /\ AbsMap(last.pre)[last.key] # last.value
    /\ Len(HolderPath(last.pre, last.key)) >= 1
    /\ get_error_count(NodeAt(book, HolderPath(last.pre, last.key))) = 1

\* C5: deleting a stored transaction raises nothing, takes exactly 1 from
\* len(book), makes book[t] raise KeyError, and leaves book[u] returning the
\* same value for every other stored transaction u.
C5_DeletePresent ==
    (last.op = "del" /\ last.key \in StoredKeys(last.pre)) =>
        /\ last.exc = "none"
        /\ BookLen(book) = BookLen(last.pre) - 1
        /\ getitem(book, last.key).exc = "KeyError"
        /\ \A u \in StoredKeys(last.pre) \ {last.key} :
              /\ getitem(last.pre, u).exc = "none"
              /\ getitem(book, u) = getitem(last.pre, u)

C5_Witness ==
    /\ last.op = "del"
    /\ last.key \in StoredKeys(last.pre)
    /\ BookLen(last.pre) = 3
    /\ Len(HolderPath(last.pre, last.key)) >= 1

\* C6: deleting a transaction that is not stored raises KeyError and changes
\* nothing, whether or not the descent went through nested books (stated
\* for well-formed transactions).
C6_DeleteAbsentRaisesKeyError ==
    (/\ last.op = "del"
     /\ WellFormed(last.key)
     /\ last.key \notin StoredKeys(last.pre)) =>
        /\ last.exc = "KeyError"
        /\ book = last.pre

\* C7: canonical form.  No page holds a nested book with fewer than 2
\* reachable tuples.
C7_CanonicalForm ==
    \A q \in Paths(book) \ {<< >>} : LeafCount(NodeAt(book, q)) >= 2

\* A delete collapsed one nested book and left another one in place.
C7_Witness ==
    /\ last.op = "del"
    /\ last.exc = "none"
    /\ Paths(book) # {<< >>}
    /\ Paths(book) # Paths(last.pre)

\* C8: when a delete leaves a nested book with exactly one tuple, the page
\* that held the nested book holds that tuple itself, with its key and the
\* value stored for it.  The page is the one of the outermost book left with
\* one tuple: the books between it and the tuple are gone with it.
C8_CollapseToSurvivor ==
    (last.op = "del" /\ last.exc = "none") =>
        \A q \in Paths(last.pre) \ {<< >>} :
            LET n == NodeAt(last.pre, q)
                parent == NodeAt(last.pre, Front(q))
            IN  (/\ last.key \in StoredKeys(n)
                 /\ LeafCount(n) = 2
                 /\ (Front(q) = << >> \/ LeafCount(parent) > 2)) =>
                    \E p \in Leaves(n) :
                        /\ p[1] # last.key
                        /\ Front(q) \in Paths(book)
                        /\ NodeAt(book, Front(q)).pages[q[Len(q)]] =
                              TuplePage(p[1], p[2])

\* A chain of two nested books, each left with one tuple, was collapsed
\* into a root page.
C8_Witness ==
    /\ last.op = "del"
    /\ last.exc = "none"
    /\ \E q \in Paths(last.pre) :
          /\ Len(q) = 2
          /\ last.key \in StoredKeys(NodeAt(last.pre, q))
          /\ LeafCount(NodeAt(last.pre, <<q[1]>>)) = 2
          /\ book.pages[q[1]].kind = "tuple"

\* C9: listing the book yields exactly the pairs book[t] returns, each
\* stored transaction once, ordered by signature under the order of
\* LEGAL_CHARACTERS: the list is a function of what is stored.
C9_IterationOrder ==
    last.op = "iter" =>
        /\ last.exc = "none"
        /\ Len(last.ret) = Cardinality(GetPairs(book))
        /\ Range(last.ret) = GetPairs(book)
        /\ \A i, j \in 1..Len(last.ret) :
              i < j => SigBefore(last.ret[i][1].signature, last.ret[j][1].signature)

C9_Witness ==
    /\ last.op = "iter"
    /\ Len(last.ret) = 3
    /\ Cardinality(Paths(book)) = 3

\* C10: book[t] and del book[t] raise KeyError for every transaction that is
\* not stored, whatever the length of its signature (stated for well-formed
\* transactions).
C10_AbsentRaisesKeyError ==
    (/\ last.op \in {"get", "del"}
     /\ WellFormed(last.key)
     /\ last.key \notin StoredKeys(last.pre)) =>
        last.exc = "KeyError"

HasIllegalSymbol(t) ==
    \E i \in 1..Len(t.signature) : page_index(t.signature[i]) = 0

\* C12: book[t] = v for a transaction whose signature holds a symbol that is
\* not in LEGAL_CHARACTERS, at whatever position, raises ValueError on that
\* very call and leaves the book as it was.
C12_IllegalSymbolRejected ==
    (last.op = "set" /\ HasIllegalSymbol(last.key)) =>
        /\ last.exc = "ValueError"
        /\ book = last.pre

\* book[t] = v for a stored transaction t whose stored value is not v.
ConflictingSet ==
    /\ last.op = "set"
    /\ last.key \in StoredKeys(last.pre)
    /\ AbsMap(last.pre)[last.key] # last.value

\* C13: book.get_error_count() counts the conflicts of the root book only.
\* A conflicting set on a transaction whose tuple is in a nested book adds 1
\* to that nested book's count and leaves the root's count as it was; the
\* root's count changes only by a conflicting set on a transaction whose
\* tuple is in a page of the root itself, and then by 1.
C13_ConflictCountIsNodeLocal ==
    /\ (ConflictingSet /\ HolderPath(last.pre, last.key) # << >>) =>
          LET holder == HolderPath(last.pre, last.key) IN
          /\ get_error_count(book) = get_error_count(last.pre)
          /\ get_error_count(NodeAt(book, holder)) =
                get_error_count(NodeAt(last.pre, holder)) + 1
    /\ (last.op # "idle" /\ get_error_count(book) # get_error_count(last.pre)) =>
          /\ ConflictingSet
          /\ HolderPath(last.pre, last.key) = << >>
          /\ get_error_count(book) = get_error_count(last.pre) + 1

\* The root had counted a conflict of its own, then a conflicting set was
\* made on a transaction held in a nested book.
C13_Witness ==
    /\ ConflictingSet
    /\ HolderPath(last.pre, last.key) # << >>
    /\ get_error_count(last.pre) = 1
    /\ get_error_count(NodeAt(book, HolderPath(last.pre, last.key))) = 1

\* C14: every iterator has its own items and its own position.  What an
\* iterator has returned so far is the listing of the book as it was when
\* the iterator was made, up to the iterator's own position, whatever was
\* set or deleted since and wherever the other iterators are; when it raises
\* StopIteration it has returned that whole listing.
C14_IteratorsAreSnapshots ==
    \A i \in IterIds :
        LET it == iters[i] IN
        it.created =>
            /\ it.current <= Len(it.listing)
            /\ it.yielded = SubSeq(it.listing, 1, it.current)
            /\ it.stopped => it.yielded = it.listing

\* Two iterators made from different states of the book, the book changed
\* since both were made, one iterator at its end and the other on its way.
C14_Witness ==
    \E i, j \in IterIds :
        /\ iters[i].created /\ iters[j].created
        /\ iters[i].listing # iters[j].listing
        /\ return_in_order(book) # iters[i].listing
        /\ return_in_order(book) # iters[j].listing
        /\ iters[i].stopped /\ Len(iters[i].yielded) = 3
        /\ iters[j].current = 1 /\ Len(iters[j].items) = 2
        /\ return_in_order(book) # << >>
        /\ iters[j].yielded[1] # return_in_order(book)[1]

\* The transactions of sequence seq for which GoesBefore holds, and the
\* others, in the order of seq.
RECURSIVE AddedBefore(_)
AddedBefore(seq) ==
    IF seq = << >> THEN << >>
    ELSE (IF TxFields(Head(seq)).timestamp <= critical_transaction.timestamp
          THEN <<Head(seq)>> ELSE << >>) \o AddedBefore(Tail(seq))

RECURSIVE AddedAfter(_)
AddedAfter(seq) ==
    IF seq = << >> THEN << >>
    ELSE (IF TxFields(Head(seq)).timestamp > critical_transaction.timestamp
          THEN <<Head(seq)>> ELSE << >>) \o AddedAfter(Tail(seq))

Reverse(seq) == [i \in 1..Len(seq) |-> seq[Len(seq) + 1 - i]]

\* The first iterator made of the line has just raised StopIteration for
\* the first time, no other iterator having been made.
FirstIterationExhausted ==
    /\ lcall.op = "next"
    /\ lcall.exc = "StopIteration"
    /\ ~lcall.restop
    /\ made = 1

\* C15: a line to which transactions were added and which is then iterated
\* until StopIteration has yielded every transaction added with a timestamp
\* up to the critical one, in the order they were added, then the critical
\* transaction, then every transaction added with a later timestamp, last
\* added first; each addition is yielded once.
C15_IterationOrder ==
    FirstIterationExhausted =>
        lits[lcall.it].yielded =
            AddedBefore(added) \o <<CriticalId>> \o Reverse(AddedAfter(added))

\* Two transactions of each kind were added, in an order in which neither
\* kind is sorted by timestamp, one of them with the critical timestamp.
C15_Witness ==
    /\ FirstIterationExhausted
    /\ added = <<2, 4, 1, 3>>
    /\ lits[lcall.it].yielded = <<2, 1, 0, 3, 4>>

\* C16: while an iterator of the line has been made and has not raised
\* StopIteration, add_transaction raises RuntimeError and leaves the
\* before-queue and the after-stack as they were.
C16_AddWhileIteratingRaises ==
    (lcall.op = "add" /\ lcall.busy) =>
        /\ lcall.exc = "RuntimeError"
        /\ line.before_queue = lcall.pre.before_queue
        /\ line.after_stack = lcall.pre.after_stack

\* C17: while an iterator of the line has been made and has not raised
\* StopIteration, iter(line) raises RuntimeError, so that at most one
\* iterator is on its way at a time.
C17_OneIteratorAtATime ==
    /\ (lcall.op = "iter" /\ lcall.busy) => lcall.exc = "RuntimeError"
    /\ \A i, j \in LineIterIds :
          (/\ lits[i].created /\ ~lits[i].stopped
           /\ lits[j].created /\ ~lits[j].stopped) => i = j

\* C18: line.locked is True from the return of iter(line) until that
\* iterator raises StopIteration and False afterwards, and an iterator of a
\* line with n added transactions raises StopIteration after exactly n + 1
\* yields.
C18_LockedWhileIterating ==
    /\ line.locked <=> IterationInProgress
    /\ FirstIterationExhausted =>
          Len(lits[lcall.it].yielded) = Len(added) + 1

\* C19: the transaction __next__ returns has a signature that is not empty:
\* the one sign() computes if the transaction had none, the one it had
\* otherwise.
C19_YieldedIsSigned ==
    (lcall.op = "next" /\ lcall.exc = "none") =>
        /\ sigs[lcall.ret] # NoneSignature
        /\ Len(sigs[lcall.ret]) > 0
        /\ sigs[lcall.ret] = IF lcall.presig = NoneSignature
                              THEN sign(TxFields(lcall.ret))
                              ELSE lcall.presig

\* The transaction the caller had given a signature was returned after one
\* that was signed on the way.
C19_Witness ==
    /\ lcall.op = "next"
    /\ lcall.exc = "none"
    /\ lcall.ret = 3
    /\ lcall.presig = <<"a", "b", "c", "1", "2", "3">>
    /\ Len(sigs[CriticalId]) = signature_length
    /\ sigs[CriticalId] # sigs[1]

\* The orders of a sequence as a bag.
RECURSIVE BagOf(_)
BagOf(seq) ==
    IF seq = << >> THEN EmptyBag
    ELSE BagOf(Tail(seq)) (+) SetToBag({Head(seq)})

\* C20: deliver_single on a dispatch with pending orders raises nothing,
\* returns a pending order whose FoodFast score is the lowest of all pending
\* orders and takes that order, and nothing else, from the pending orders,
\* whose number goes down by 1; on a dispatch without pending orders it
\* raises and leaves the dispatch as it was.
C20_DeliverSingleTakesLowestScore ==
    ocall.op = "deliver_single" =>
        IF Len(ocall.pre) = 0
        THEN ocall.exc = "Exception" /\ orders = ocall.pre
        ELSE /\ ocall.exc = "none"
             /\ \E i \in 1..Len(ocall.pre) : ocall.pre[i] = ocall.ret
             /\ \A i \in 1..Len(ocall.pre) :
                   foodfast_score(ocall.ret) <= foodfast_score(ocall.pre[i])
             /\ foodfast_score(ocall.ret) =
                   ocall.ret.distance * 4 - ocall.ret.hunger * 5
             /\ Len(orders) = Len(ocall.pre) - 1
             /\ BagOf(orders) (+) SetToBag({ocall.ret}) = BagOf(ocall.pre)

\* Four orders were pending, with three different scores, and another
\* pending order had the score of the one delivered.
C20_Witness ==
    /\ ocall.op = "deliver_single"
    /\ ocall.exc = "none"
    /\ Len(ocall.pre) = max_orders
    /\ Cardinality({foodfast_score(ocall.pre[i]) : i \in 1..Len(ocall.pre)}) >= 3
    /\ \E i \in 1..Len(ocall.pre) :
          /\ ocall.pre[i] # ocall.ret
          /\ foodfast_score(ocall.pre[i]) = foodfast_score(ocall.ret)

\* C21: the dispatch never holds more than max_orders pending orders,
\* whatever receive_order, deliver_single and deliver_multiple calls were
\* made; receive_order on a dispatch that holds max_orders orders raises and
\* leaves the pending orders as they were.
C21_NeverMoreThanMaxOrders ==
    /\ Len(orders) <= max_orders
    /\ (ocall.op = "receive" /\ Len(ocall.pre) >= max_orders) =>
          /\ ocall.exc = "Exception"
          /\ orders = ocall.pre

\* An order was refused by a dispatch that held max_orders orders, not all
\* of the same hunger.
C21_Witness ==
    /\ ocall.op = "receive"
    /\ ocall.exc = "Exception"
    /\ Len(orders) = max_orders
    /\ \E i, j \in 1..Len(orders) : orders[i].hunger # orders[j].hunger

\* Where the drone is after the first k deliveries of a list, and what it
\* has flown by then.
DronePosition(delivered, k) ==
    IF k = 0 THEN dispatch_location ELSE delivered[k].location

RECURSIVE TravelUsed(_, _)
TravelUsed(delivered, k) ==
    IF k = 0 THEN 0
    ELSE TravelUsed(delivered, k - 1)
         + DistanceBetween(DronePosition(delivered, k - 1), delivered[k].location)

\* What the drone has flown in all if, after the first k deliveries, it goes
\* to the order and from there back to the dispatch location.
TripWith(delivered, k, order) ==
    TravelUsed(delivered, k)
    + DistanceBetween(DronePosition(delivered, k), order.location)
    + DistanceBetween(order.location, dispatch_location)

\* C22: deliver_multiple(max_travel) returns the orders it delivered in the
\* order of priority (the score never goes down along the list, and no
\* order left pending has a lower score than a delivered one); each
\* delivery was within max_travel, the way back included; the delivered
\* orders, and only they, are taken from the pending orders; and the order
\* that is next in priority when it stops does not fit, whatever the orders
\* behind it would need.
C22_DeliverMultipleByPriority ==
    ocall.op = "deliver_multiple" =>
        LET delivered == ocall.delivered
            n == Len(delivered)
        IN  /\ ocall.exc = "none"
            /\ \A i, j \in 1..n :
                  i < j => foodfast_score(delivered[i]) <= foodfast_score(delivered[j])
            /\ \A i \in 1..n, k \in 1..Len(orders) :
                  foodfast_score(delivered[i]) <= foodfast_score(orders[k])
            /\ BagOf(delivered) (+) BagOf(orders) = BagOf(ocall.pre)
            /\ \A k \in 1..n :
                  TripWith(delivered, k - 1, delivered[k]) <= ocall.max_travel
            /\ orders # << >> =>
                  /\ \A k \in 1..Len(orders) :
                        foodfast_score(orders[1]) <= foodfast_score(orders[k])
                  /\ TripWith(delivered, n, orders[1]) > ocall.max_travel

\* Two orders were delivered and two stay pending, one of which would have
\* fitted.
C22_Witness ==
    /\ ocall.op = "deliver_multiple"
    /\ Len(ocall.delivered) = 2
    /\ Len(orders) = 2
    /\ ocall.delivered[1].location # ocall.delivered[2].location
    /\ TripWith(ocall.delivered, 2, orders[2]) <= ocall.max_travel
\* ------------------------------------------------------------- FoodFlight

\* The name s comes before the name u in lexicographic order: they agree up
\* to a place where s has ended and u has not, or where the character of s
\* is the lower one.
NameBefore(s, u) ==
    \E k \in 1..Len(u) :
        /\ k <= Len(s) + 1
        /\ \A i \in 1..(k - 1) : s[i] = u[i]
        /\ k <= Len(s) => Ord(s[k]) < Ord(u[k])

\* The item a comes before the item b on a menu: the higher rating, or the
\* same rating and the earlier name.
RanksBefore(a, b) ==
    \/ a.rating > b.rating
    \/ a.rating = b.rating /\ NameBefore(a.name, b.name)

\* Every item of the array comes before the items behind it, so that no item
\* is there twice.
MenuOrdered(array) ==
    \A i, j \in 1..Len(array) : i < j => RanksBefore(array[i], array[j])

\* The Restaurant objects added under the name, and the one of them that
\* was added last.
Registered(name) == {i \in 1..Len(restaurants) : restaurants[i].name = name}

LastRegistered(name) ==
    CHOOSE i \in Registered(name) : \A j \in Registered(name) : j <= i

\* C23: get_menu(name) raises KeyError when no restaurant was added under the
\* name; otherwise it returns the items the restaurant of that name has been
\* given, each of them once, by decreasing rating and, among equal ratings,
\* by ascending name, in whatever order they were given.
C23_GetMenuOrdered ==
    fcall.op = "get_menu" =>
        IF Registered(fcall.name) = {}
        THEN fcall.exc = "KeyError"
        ELSE /\ fcall.exc = "none"
             /\ MenuOrdered(fcall.ret)
             /\ Range(fcall.ret) = supplied[LastRegistered(fcall.name)]

\* get_menu has returned a menu of three items or more with two items of one
\* rating and two of different ratings.
C23_Witness ==
    /\ fcall.op = "get_menu"
    /\ fcall.exc = "none"
    /\ Len(fcall.ret) >= 3
    /\ \E i \in 1..(Len(fcall.ret) - 1) :
          fcall.ret[i].rating = fcall.ret[i + 1].rating
    /\ \E i \in 1..(Len(fcall.ret) - 1) :
          fcall.ret[i].rating > fcall.ret[i + 1].rating

\* The menu get_menu returns now for the name of the call that has just
\* finished.
MenuNow == get_menu(restaurants, restaurant_name, fcall.name).ret

\* C24: after add_to_menu(name, new_items) on a registered name, get_menu(name)
\* holds exactly the items of the menu before the call and the new items,
\* each of them once, also an item that was given again, by decreasing
\* rating and then ascending name; with no new items the menu is as before.
C24_AddToMenuIsUnion ==
    (fcall.op = "add_to_menu" /\ Registered(fcall.name) # {}) =>
        /\ fcall.exc = "none"
        /\ Range(MenuNow) = Range(fcall.pre) \cup Range(fcall.new_items)
        /\ MenuOrdered(MenuNow)
        /\ fcall.new_items = << >> => MenuNow = fcall.pre

\* add_to_menu has added, to a menu of two items or more, new items that
\* were not sorted, one of them on the menu already and one of them not.
C24_Witness ==
    /\ fcall.op = "add_to_menu"
    /\ fcall.exc = "none"
    /\ Len(fcall.pre) >= 2
    /\ ~MenuOrdered(fcall.new_items)
    /\ Range(fcall.new_items) \cap Range(fcall.pre) # {}
    /\ Range(fcall.new_items) \ Range(fcall.pre) # {}

\* The block numbers of the block index within max_walk of the user's block
\* of the call that has just finished, and the Restaurant objects the index
\* holds for them.
BlocksInReach ==
    {b \in TreeKeys(restaurant_block) :
        /\ fcall.user_block_number - fcall.max_walk <= b
        /\ b <= fcall.user_block_number + fcall.max_walk}

InReach == {TreeGetItem(restaurant_block, b) : b \in BlocksInReach}

\* The items the Restaurant objects of a set have been given, an item as
\* many times as there are restaurants that have it.
RECURSIVE MenusOf(_)
MenusOf(objects) ==
    IF objects = {} THEN EmptyBag
    ELSE LET r == CHOOSE o \in objects : TRUE
         IN  SetToBag(supplied[r]) (+) MenusOf(objects \ {r})

\* The item a is not behind the item b: it comes before b or is equal to it.
NotBehind(a, b) ==
    RanksBefore(a, b) \/ (a.name = b.name /\ a.rating = b.rating)

C26_IndexesAgree ==
    /\ \A b \in TreeKeys(restaurant_block) :
          LET restaurant == TreeGetItem(restaurant_block, b)
          IN  restaurant_name[restaurants[restaurant].name] = restaurant
    /\ \A n \in RestaurantNames :
          restaurant_name[n] # NoRestaurant =>
              LET restaurant == restaurant_name[n]
                  b == restaurants[restaurant].block_number
              IN  /\ b \in TreeKeys(restaurant_block)
                  /\ TreeGetItem(restaurant_block, b) = restaurant

\* ------------------------------------------------- ProcessingBook, counts

\* C27: in every state, after calls that returned and calls that raised, the
\* length each book of the structure keeps is the number of tuples reachable
\* from it, and len(book) of the root is the number of transactions stored.
C27_LengthIsLeafCount ==
    /\ \A n \in Books(book) : BookLen(n) = LeafCount(n)
    /\ BookLen(book) = Cardinality(StoredKeys(book))

\* A set has raised on a book of three tuples with a nested book inside a
\* nested book.
C27_Witness ==
    /\ last.op = "set"
    /\ last.exc # "none"
    /\ BookLen(book) = 3
    /\ \E q \in Paths(book) : Len(q) = 2

\* C28: every collapse_to_tuple call that a delete makes is made on a nested
\* book whose length has just become 1, with the index of its first page
\* that is not None, and returns a tuple, neither a book nor None: the one
\* tuple still stored in that nested book.
C28_CollapseReturnsTheSurvivor ==
    last.op = "del" =>
        \A c \in CollapseCalls(last.pre, last.key) :
            LET ret == collapse_to_tuple(c.child, c.remaining_index)
            IN  /\ BookLen(c.child) = 1
                /\ c.remaining_index = FirstUsed(c.child)
                /\ ret.kind = "tuple"
                /\ Leaves(c.child) = {<<ret.key, ret.value>>}

\* A delete has collapsed a nested book and then the nested book that held
\* it.
C28_Witness ==
    /\ last.op = "del"
    /\ last.exc = "none"
    /\ Cardinality(CollapseCalls(last.pre, last.key)) >= 2

\* C29: a set that raises, in the root or at any depth, on the way down the
\* nested books or while the two colliding transactions are put into new
\* nested books, leaves the book as it was: every page, every length and
\* every error count.
C29_FailedSetChangesNothing ==
    (last.op = "set" /\ last.exc # "none") => book = last.pre

\* A set has raised below a nested book of the root, in a new nested book
\* at level 2 or deeper that both colliding transactions were to be put in.
C29_Witness ==
    /\ last.op = "set"
    /\ last.exc = "ValueError"
    /\ Paths(last.pre) # {<< >>}
    /\ \E c1, c2 \in SetCalls(last.pre, last.key, last.value) :
          /\ c1[1] = c2[1]
          /\ c1[1] >= 2
          /\ c1[2] # c2[2]

\* C30: when a set of a transaction that was not stored has returned, the
\* delete of that transaction returns and leaves the book as it was before
\* the set: the same None, tuple or nested book in every page, the same
\* lengths and the same error counts.
C30_SetThenDeleteRestores ==
    (/\ last.op = "set"
     /\ last.exc = "none"
     /\ last.key \notin StoredKeys(last.pre)) =>
        LET d == delitem(book, last.key)
        IN  /\ d.exc = "none"
            /\ d.book = last.pre

\* A set of a new transaction has made a nested book inside a new nested
\* book, in a book that has counted an error.
C30_Witness ==
    /\ last.op = "set"
    /\ last.exc = "none"
    /\ last.key \notin StoredKeys(last.pre)
    /\ \E q \in Paths(book) \ Paths(last.pre) : Len(q) = 2
    /\ \E n \in Books(last.pre) : n.errors > 0

\* ----------------------------------------------- ProcessingBook, prefixes

\* The transactions s and t are different and the signature of one is a
\* prefix of, or the same as, the signature of the other.
PrefixRelated(s, t) ==
    /\ s # t
    /\ IsPrefix(s.signature, t.signature) \/ IsPrefix(t.signature, s.signature)

====
